---- MODULE Spec2Model ----
(***************************************************************************)
(* A model of backend/main.py of the SHL assessment recommendation engine: *)
(* the metadata normalizer (clean_list_field), the document builder        *)
(* (get_duration_range, prepare_documents), the query filter compiler      *)
(* (extract_filters_from_query), the retrieval orchestrator                *)
(* (search_assessments) and the two request paths (process_user_query and  *)
(* the /search endpoint).                                                  *)
(*                                                                         *)
(* Python strings are TLA+ strings read character by character (SubSeq,    *)
(* Len, \o).  Python values that can be of several types are tagged        *)
(* tuples: <<"bool", b>>, <<"str", s>>, <<"float", tenths>>, <<"nan">>.    *)
(* Floats are kept in tenths of a unit (155 is 15.5).                      *)
(***************************************************************************)
EXTENDS Integers, Sequences, FiniteSets, TLC

VARIABLES
    pc,          \* position of the run: which call is next, or how it ended
    query,       \* the query string handed to the function under study
    filters,     \* extract_filters_from_query's return value
    field,       \* clean_list_field's argument
    cleaned,     \* clean_list_field's outcome (a list, or a raised exception)
    df,          \* prepare_documents' argument: the rows of the DataFrame
    iter_order,  \* the iteration order of the sets all_job_levels/all_languages
    documents,   \* prepare_documents' return value: one metadata dict per row
    engine,      \* what the vector store answers to this request's search
    returned,    \* search_assessments' return value
    request,     \* the request: entry point, query, is_url, max_results
    url,         \* the job-posting URL found in the request's query
    job_description, \* what extract_job_description returned
    calls,       \* the external capabilities called so far, with their outcomes
    response     \* what the request path hands back (or the exception raised)

vars == <<pc, query, filters, field, cleaned, df, iter_order, documents,
          engine, returned, request, url, job_description, calls, response>>

normVars == <<field, cleaned>>
docVars == <<df, iter_order, documents>>
reqVars == <<engine, returned, request, url, job_description, calls, response>>

(***************************************************************************)
(* Python values                                                           *)
(***************************************************************************)
PyBool(b) == <<"bool", b>>
PyStr(s) == <<"str", s>>
PyFloat(tenths) == <<"float", tenths>>
PyNaN == <<"nan">>
PyTrue == PyBool(TRUE)
PyNone == [py |-> "None"]
\* A dict with one entry, {key: val}.
PyDict1(k, v) == [py |-> "dict", key |-> k, val |-> v]

Idle == "idle"

(***************************************************************************)
(* Strings, character by character                                         *)
(***************************************************************************)
CharAt(s, i) == SubSeq(s, i, i)

UpperLetters == "ABCDEFGHIJKLMNOPQRSTUVWXYZ"
LowerLetters == "abcdefghijklmnopqrstuvwxyz"
DigitChars == "0123456789"

Chars(s) == {CharAt(s, i) : i \in 1..Len(s)}

IndexIn(c, s) == CHOOSE i \in 1..Len(s) : CharAt(s, i) = c

IsDigit(c) == c \in Chars(DigitChars)
IsSpace(c) == c \in {" ", "\t", "\n", "\r"}
\* \w of Python's re on the characters used here: letters, digits, underscore.
IsWordChar(c) ==
    c \in Chars(UpperLetters) \cup Chars(LowerLetters) \cup Chars(DigitChars) \cup {"_"}

LowerChar(c) ==
    IF c \in Chars(UpperLetters) THEN CharAt(LowerLetters, IndexIn(c, UpperLetters)) ELSE c
UpperChar(c) ==
    IF c \in Chars(LowerLetters) THEN CharAt(UpperLetters, IndexIn(c, LowerLetters)) ELSE c

RECURSIVE StrLower(_)
StrLower(s) == IF s = "" THEN "" ELSE LowerChar(Head(s)) \o StrLower(Tail(s))

RECURSIVE StrUpper(_)
StrUpper(s) == IF s = "" THEN "" ELSE UpperChar(Head(s)) \o StrUpper(Tail(s))

\* str.replace(old, new) for a one-character old.
RECURSIVE StrReplace(_, _, _)
StrReplace(s, old, new) ==
    IF s = "" THEN ""
    ELSE (IF Head(s) = old THEN new ELSE Head(s)) \o StrReplace(Tail(s), old, new)

\* The substring test: sub in s.
StrContains(s, sub) ==
    \E i \in 1..(Len(s) - Len(sub) + 1) : SubSeq(s, i, i + Len(sub) - 1) = sub

\* \b at the gap after character p of s (0 is the start, Len(s) the end).
WordBoundary(s, p) ==
    LET before == p >= 1 /\ IsWordChar(CharAt(s, p))
        after == p < Len(s) /\ IsWordChar(CharAt(s, p + 1))
    IN before # after

\* re.search(r'\b' + re.escape(lit) + r'\b', s) is not None
SearchWord(lit, s) ==
    \E i \in 1..(Len(s) - Len(lit) + 1) :
        /\ SubSeq(s, i, i + Len(lit) - 1) = lit
        /\ WordBoundary(s, i - 1)
        /\ WordBoundary(s, i + Len(lit) - 1)

\* re.search(r'\b(a|b|c)\b', s) is not None
SearchAnyWord(alts, s) == \E a \in alts : SearchWord(a, s)

\* int() of a string of ASCII digits.
RECURSIVE DigitsToInt(_)
DigitsToInt(s) ==
    IF s = "" THEN 0
    ELSE 10 * DigitsToInt(SubSeq(s, 1, Len(s) - 1)) + (IndexIn(CharAt(s, Len(s)), DigitChars) - 1)

\* The end of the longest run of characters satisfying a class, from position i on
\* (i - 1 when the run is empty).
RECURSIVE DigitRunEnd(_, _)
DigitRunEnd(s, i) ==
    IF i <= Len(s) /\ IsDigit(CharAt(s, i)) THEN DigitRunEnd(s, i + 1) ELSE i - 1
RECURSIVE SpaceRunEnd(_, _)
SpaceRunEnd(s, i) ==
    IF i <= Len(s) /\ IsSpace(CharAt(s, i)) THEN SpaceRunEnd(s, i + 1) ELSE i - 1

StartsAt(s, i, lit) == i + Len(lit) - 1 <= Len(s) /\ SubSeq(s, i, i + Len(lit) - 1) = lit

(***************************************************************************)
(* (\d+)\s*<unit> with re.search: the leftmost start, \d+ and \s* greedy.  *)
(* A shorter \d+ would leave a digit where \s* or the unit must start, so  *)
(* only the longest digit run from a start can match.  units are the       *)
(* alternatives in the pattern's order; the first that fits is taken.      *)
(***************************************************************************)
DurationMatchAt(s, i, units) ==
    LET de == DigitRunEnd(s, i)
        se == SpaceRunEnd(s, de + 1)
    IN /\ de >= i
       /\ \E k \in 1..Len(units) : StartsAt(s, se + 1, units[k])

DurationSearch(s, units) ==
    LET starts == {i \in 1..Len(s) : DurationMatchAt(s, i, units)}
    IN IF starts = {} THEN [found |-> FALSE]
       ELSE LET i == CHOOSE j \in starts : \A k \in starts : j <= k
                de == DigitRunEnd(s, i)
                se == SpaceRunEnd(s, de + 1)
                u == CHOOSE k \in 1..Len(units) :
                        /\ StartsAt(s, se + 1, units[k])
                        /\ \A m \in 1..(k - 1) : ~StartsAt(s, se + 1, units[m])
            IN [found |-> TRUE,
                group1 |-> SubSeq(s, i, de),
                group0 |-> SubSeq(s, i, se + Len(units[u]))]

\* str() of a non-negative int.
RECURSIVE IntToStr(_)
IntToStr(n) ==
    IF n < 10 THEN CharAt(DigitChars, n + 1)
    ELSE IntToStr(n \div 10) \o CharAt(DigitChars, (n % 10) + 1)
(***************************************************************************)
(* extract_filters_from_query                                              *)
(***************************************************************************)
job_levels ==
    <<"analyst", "director", "entry-level", "executive", "front line manager",
      "general population", "graduate", "manager", "mid-professional",
      "professional individual contributor", "supervisor">>

languages ==
    <<"arabic", "chinese simplified", "chinese traditional", "czech", "danish",
      "dutch", "english", "estonian", "finnish", "flemish", "french", "german",
      "greek", "hungarian", "icelandic", "indonesian", "italian", "japanese",
      "korean", "latvian", "lithuanian", "malay", "norwegian", "polish",
      "portuguese", "romanian", "russian", "serbian", "slovak", "spanish",
      "swedish", "thai", "turkish", "vietnamese">>

CognitiveWords == {"cognitive", "ability", "aptitude"}
PersonalityWords == {"personality", "behavior", "behaviour"}
TechnicalWords == {"technical", "knowledge", "skill"}
SoftSkillWords == {"soft skill", "competenc", "situational", "judgment"}

\* The alternatives of the filter compiler's duration pattern, in its order.
FilterDurationUnits == <<"min", "mins", "minutes">>

\* level.replace(' ', '_').replace('-', '_')
NormalizeKey(v) == StrReplace(StrReplace(v, " ", "_"), "-", "_")

\* The conditions appended for the phrases of a list found in the query, in the
\* list's order.
RECURSIVE ListConditions(_, _, _, _)
ListConditions(list, i, ql, prefix) ==
    IF i > Len(list) THEN <<>>
    ELSE (IF SearchWord(list[i], ql)
          THEN <<PyDict1(prefix \o NormalizeKey(list[i]), PyTrue)>>
          ELSE <<>>) \o ListConditions(list, i + 1, ql, prefix)

CategoryConditions(ql) ==
    (IF SearchAnyWord(CognitiveWords, ql) THEN <<PyDict1("contains_cognitive", PyTrue)>> ELSE <<>>)
    \o (IF SearchAnyWord(PersonalityWords, ql) THEN <<PyDict1("contains_personality", PyTrue)>> ELSE <<>>)
    \o (IF SearchAnyWord(TechnicalWords, ql) THEN <<PyDict1("contains_technical", PyTrue)>> ELSE <<>>)
    \o (IF SearchAnyWord(SoftSkillWords, ql) THEN <<PyDict1("contains_soft_skill", PyTrue)>> ELSE <<>>)

\* DurationBucket with the two range tags' thresholds taken strictly.
DurationBucketStrict(minutes) ==
    IF minutes < 15 THEN <<PyDict1("duration_range", PyStr("very_short"))>>
    ELSE IF minutes < 30 THEN <<PyDict1("duration_range", PyStr("short"))>>
    ELSE IF minutes <= 45 THEN <<PyDict1("duration_under_45", PyTrue)>>
    ELSE IF minutes <= 60 THEN <<PyDict1("duration_under_60", PyTrue)>>
    ELSE <<>>

DurationBucket(minutes) ==
    IF minutes <= 15 THEN <<PyDict1("duration_range", PyStr("very_short"))>>
    ELSE IF minutes <= 30 THEN <<PyDict1("duration_range", PyStr("short"))>>
    ELSE IF minutes <= 45 THEN <<PyDict1("duration_under_45", PyTrue)>>
    ELSE IF minutes <= 60 THEN <<PyDict1("duration_under_60", PyTrue)>>
    ELSE <<>>

DurationConditions(ql) ==
    LET duration_match == DurationSearch(ql, FilterDurationUnits)
    IN IF duration_match.found
       THEN DurationBucket(DigitsToInt(duration_match.group1))
       ELSE <<>>

FeatureConditions(ql) ==
    (IF StrContains(ql, "remote") THEN <<PyDict1("remote_testing", PyTrue)>> ELSE <<>>)
    \o (IF StrContains(ql, "adaptive") THEN <<PyDict1("adaptive_irt", PyTrue)>> ELSE <<>>)

filter_conditions(q) ==
    LET ql == StrLower(q)
    IN ListConditions(job_levels, 1, ql, "job_level_")
       \o CategoryConditions(ql)
       \o DurationConditions(ql)
       \o ListConditions(languages, 1, ql, "language_")
       \o FeatureConditions(ql)

\* FilterStructure without the single-condition case: one condition is wrapped too.
FilterStructureAlwaysOr(conds) ==
    IF Len(conds) = 0 THEN PyNone
    ELSE PyDict1("$or", <<"list", conds>>)

\* The ChromaDB structure returned for a list of conditions.
FilterStructure(conds) ==
    IF Len(conds) = 0 THEN PyNone
    ELSE IF Len(conds) = 1 THEN conds[1]
    ELSE PyDict1("$or", <<"list", conds>>)

extract_filters_from_query(q) == FilterStructure(filter_conditions(q))
(***************************************************************************)
(* The queries the filter compiler is run on: up to MaxWords words, each   *)
(* followed by a piece of glue that ends the word, extends it or joins it  *)
(* to the next; every number of minutes up to MaxMinutes in every spelling *)
(* of the unit; and the example queries of the specification.              *)
(***************************************************************************)
MaxWords == 2
MaxMinutes == 61

QueryWords == {"Entry-Level", "competenc", "skill", "soft", "Spanish", "remote"}
QueryGlue == {" ", "y", ""}

RECURSIVE WordQueries(_)
WordQueries(n) ==
    IF n = 0 THEN {""}
    ELSE WordQueries(n - 1)
         \cup {q \o w \o g : q \in WordQueries(n - 1), w \in QueryWords, g \in QueryGlue}

DurationQueries ==
    {pre \o IntToStr(n) \o ws \o unit \o post :
        pre \in {"", "test "}, n \in 0..MaxMinutes, ws \in {"", " "},
        unit \in {"min", "mins", "minutes", "minimum", "m"},
        post \in {"", " or 9 min"}}

ExampleQueries ==
    {"entry-level personality test in Spanish, 20 minutes",
     "graduate knowledge test under 20 minutes",
     "Cognitive ability for a Front Line Manager, 120 minutes, adaptive",
     "chinese simplified behaviour judgment 45mins"}

FilterQueries == WordQueries(MaxWords) \cup DurationQueries \cup ExampleQueries

IdleNorm == field = Idle /\ cleaned = Idle
IdleDocs == df = Idle /\ iter_order = Idle /\ documents = Idle
IdleReq ==
    /\ engine = Idle /\ returned = Idle /\ request = Idle /\ url = Idle
    /\ job_description = Idle /\ calls = Idle /\ response = Idle

InitFilter ==
    /\ pc = "start"
    /\ query \in FilterQueries
    /\ filters = Idle
    /\ IdleNorm /\ IdleDocs /\ IdleReq

\* One call of extract_filters_from_query(query).
ExtractFilters ==
    /\ pc = "start"
    /\ filters' = extract_filters_from_query(query)
    /\ pc' = "done"
    /\ UNCHANGED <<query, normVars, docVars, reqVars>>

NextFilter == ExtractFilters

SpecFilter == InitFilter /\ [][NextFilter]_vars
(***************************************************************************)
(* Claims about the filter compiler (SpecFilter)                           *)
(***************************************************************************)
\* The conditions a returned filter holds.
FilterConds(f) ==
    IF f = PyNone THEN <<>>
    ELSE IF f.key = "$or" THEN f.val[2]
    ELSE <<f>>

FilterHas(f, k, v) == \E i \in 1..Len(FilterConds(f)) : FilterConds(f)[i] = PyDict1(k, v)

DurationFields == {"duration_range", "duration_under_45", "duration_under_60"}

DurationCondsOf(f) ==
    {i \in 1..Len(FilterConds(f)) : FilterConds(f)[i].key \in DurationFields}

\* lit occurs in s as whole words: neither neighbour of the occurrence is a letter,
\* a digit or an underscore.
OccursAsWord(lit, s) ==
    \E i \in 1..(Len(s) - Len(lit) + 1) :
        /\ SubSeq(s, i, i + Len(lit) - 1) = lit
        /\ (i = 1 \/ ~IsWordChar(CharAt(s, i - 1)))
        /\ (i + Len(lit) > Len(s) \/ ~IsWordChar(CharAt(s, i + Len(lit))))

\* A word of s begins with stem.
WordBeginsWith(stem, s) ==
    \E i \in 1..(Len(s) - Len(stem) + 1) :
        /\ SubSeq(s, i, i + Len(stem) - 1) = stem
        /\ (i = 1 \/ ~IsWordChar(CharAt(s, i - 1)))

\* The number N of the first duration expression "<N> min", "<N> mins" or
\* "<N> minutes" of s (digits, optional white space, the unit), or -1 when there is none.
FirstDurationN(s) ==
    LET ends == {j \in 1..Len(s) :
                    /\ IsDigit(CharAt(s, j))
                    /\ \E k \in j..Len(s) :
                          /\ \A m \in (j + 1)..k : IsSpace(CharAt(s, m))
                          /\ StartsAt(s, k + 1, "min")}
    IN IF ends = {} THEN -1
       ELSE LET j == CHOOSE e \in ends : \A o \in ends : e <= o
                i == CHOOSE b \in 1..j :
                        /\ \A m \in b..j : IsDigit(CharAt(s, m))
                        /\ (b = 1 \/ ~IsDigit(CharAt(s, b - 1)))
            IN DigitsToInt(SubSeq(s, i, j))

\* C2: the returned filter is absent when no condition matched, the condition itself
\* when exactly one matched, and an $or of all matched conditions when two or more
\* matched; it is never an $and and never an $or of fewer than two conditions.
C2_FilterShape ==
    pc = "done" =>
        LET conds == filter_conditions(query)
        IN /\ (Len(conds) = 0 => filters = PyNone)
           /\ (Len(conds) = 1 => filters = conds[1] /\ filters.key # "$or")
           /\ (Len(conds) >= 2 => filters = PyDict1("$or", <<"list", conds>>))
           /\ (filters # PyNone => filters.key # "$and")
           /\ (filters # PyNone /\ filters.key = "$or" => Len(filters.val[2]) >= 2)

\* C2's case: a run that ended with exactly one condition, returned as it is.
C2_Witness ==
    /\ pc = "done"
    /\ Len(filter_conditions(query)) = 1
    /\ filters = PyDict1("remote_testing", PyTrue)

\* C3: the filter holds job_level_<normalized> for each listed job level occurring as
\* whole words, language_<normalized> for each listed language occurring as whole
\* words, and contains_<group> exactly when a keyword of the group occurs, where the
\* soft-skill group is 'soft skill', any word beginning with 'competenc',
\* 'situational' and 'judgment'.
C3_FlagsForPhrases ==
    pc = "done" =>
        LET ql == StrLower(query)
        IN /\ \A i \in 1..Len(job_levels) :
                OccursAsWord(job_levels[i], ql)
                    => FilterHas(filters, "job_level_" \o NormalizeKey(job_levels[i]), PyTrue)
           /\ \A i \in 1..Len(languages) :
                OccursAsWord(languages[i], ql)
                    => FilterHas(filters, "language_" \o NormalizeKey(languages[i]), PyTrue)
           /\ FilterHas(filters, "contains_cognitive", PyTrue)
                <=> (\E w \in CognitiveWords : OccursAsWord(w, ql))
           /\ FilterHas(filters, "contains_personality", PyTrue)
                <=> (\E w \in PersonalityWords : OccursAsWord(w, ql))
           /\ FilterHas(filters, "contains_technical", PyTrue)
                <=> (\E w \in TechnicalWords : OccursAsWord(w, ql))
           /\ FilterHas(filters, "contains_soft_skill", PyTrue)
                <=> \/ \E w \in SoftSkillWords \ {"competenc"} : OccursAsWord(w, ql)
                    \/ WordBeginsWith("competenc", ql)

\* The bucket C4 names for N minutes.
C4_Bucket(f, n) ==
    /\ (n <= 15 => FilterHas(f, "duration_range", PyStr("very_short")))
    /\ (15 < n /\ n <= 30 => FilterHas(f, "duration_range", PyStr("short")))
    /\ (30 < n /\ n <= 45 => FilterHas(f, "duration_under_45", PyTrue))
    /\ (45 < n /\ n <= 60 => FilterHas(f, "duration_under_60", PyTrue))

\* C4 as stated: every query with a duration expression gets exactly one duration
\* condition, chosen by N; a query without one gets none.
C4_OneDurationCondition ==
    pc = "done" =>
        LET n == FirstDurationN(StrLower(query))
        IN IF n = -1 THEN DurationCondsOf(filters) = {}
           ELSE Cardinality(DurationCondsOf(filters)) = 1 /\ C4_Bucket(filters, n)

\* C4 amended: with N the number of the first duration expression, N <= 60 gets
\* exactly one duration condition, chosen by N as stated; N > 60 gets none; a query
\* without a duration expression gets none.
C4_DurationConditionUpTo60 ==
    pc = "done" =>
        LET n == FirstDurationN(StrLower(query))
        IN IF n = -1 \/ n > 60 THEN DurationCondsOf(filters) = {}
           ELSE Cardinality(DurationCondsOf(filters)) = 1 /\ C4_Bucket(filters, n)

\* C4's case: '20 minutes' compiled to duration_range=short.
C4_Witness ==
    /\ pc = "done"
    /\ query = "entry-level personality test in Spanish, 20 minutes"
    /\ FirstDurationN(StrLower(query)) = 20
    /\ FilterHas(filters, "duration_range", PyStr("short"))
    /\ Cardinality(DurationCondsOf(filters)) = 1
(***************************************************************************)
(* clean_list_field                                                        *)
(*                                                                         *)
(* The argument is one of: <<"None">> (None, or a float NaN cell),         *)
(* <<"int", n>> (any other scalar that is neither a string nor a list),    *)
(* <<"str", s>> and <<"list", items>>, the items being <<"str", s>> or     *)
(* <<"nan">> (a missing item).  The outcome is a returned list or a raised *)
(* exception.                                                              *)
(***************************************************************************)
Returns(list) == [raised |-> FALSE, value |-> list]
Raises(error) == [raised |-> TRUE, error |-> error]

\* str.strip(): white space removed from both ends.
RECURSIVE LStrip(_)
LStrip(s) == IF s # "" /\ IsSpace(Head(s)) THEN LStrip(Tail(s)) ELSE s
RECURSIVE RStrip(_)
RStrip(s) ==
    IF s # "" /\ IsSpace(CharAt(s, Len(s))) THEN RStrip(SubSeq(s, 1, Len(s) - 1)) ELSE s
Strip(s) == LStrip(RStrip(s))

\* str.split(','): the segments between the commas, empty ones included.
RECURSIVE SplitComma(_, _)
SplitComma(s, cur) ==
    IF s = "" THEN <<cur>>
    ELSE IF Head(s) = "," THEN <<cur>> \o SplitComma(Tail(s), "")
    ELSE SplitComma(Tail(s), cur \o Head(s))

\* [item.strip() for item in field.split(',') if item.strip()]
RECURSIVE StripNonEmpty(_, _)
StripNonEmpty(segs, i) ==
    IF i > Len(segs) THEN <<>>
    ELSE (IF Strip(segs[i]) # "" THEN <<PyStr(Strip(segs[i]))>> ELSE <<>>)
         \o StripNonEmpty(segs, i + 1)

CommaSeparated(s) == StripNonEmpty(SplitComma(s, ""), 1)

(***************************************************************************)
(* eval() of the text between the brackets of a list display, for text of  *)
(* string literals, commas, white space and bare names, quotes already     *)
(* replaced by ": the list of the literals' values (adjacent literals are  *)
(* concatenated, a trailing comma is allowed), or a failure (SyntaxError   *)
(* for a misplaced comma or an unterminated literal, NameError for a bare  *)
(* name).  state is "open" at the start and after a comma, "in_str" inside *)
(* a literal, "in_str3" inside a triple-quoted one, "after_str" after one. *)
(***************************************************************************)
TripleQuote == "\"\"\""

RECURSIVE EvalItems(_, _, _, _)
EvalItems(s, state, cur, acc) ==
    IF s = "" THEN
        IF state = "open" THEN [ok |-> TRUE, value |-> acc]
        ELSE IF state = "after_str" THEN [ok |-> TRUE, value |-> Append(acc, PyStr(cur))]
        ELSE [ok |-> FALSE, value |-> <<>>]
    ELSE LET c == Head(s)
             rest == Tail(s)
             rest3 == SubSeq(s, 4, Len(s))
         IN IF state = "in_str3" THEN
                IF StartsAt(s, 1, TripleQuote) THEN EvalItems(rest3, "after_str", cur, acc)
                ELSE EvalItems(rest, "in_str3", cur \o c, acc)
            ELSE IF state = "in_str" THEN
                IF c = "\"" THEN EvalItems(rest, "after_str", cur, acc)
                ELSE EvalItems(rest, "in_str", cur \o c, acc)
            ELSE IF IsSpace(c) THEN EvalItems(rest, state, cur, acc)
            ELSE IF StartsAt(s, 1, TripleQuote) THEN
                EvalItems(rest3, "in_str3", IF state = "open" THEN "" ELSE cur, acc)
            ELSE IF c = "\"" THEN
                EvalItems(rest, "in_str", IF state = "open" THEN "" ELSE cur, acc)
            ELSE IF c = "," /\ state = "after_str" THEN
                EvalItems(rest, "open", "", Append(acc, PyStr(cur)))
            ELSE [ok |-> FALSE, value |-> <<>>]

\* eval(field.replace("'", '"')) for a field that starts with [ and ends with ].
EvalListDisplay(s) ==
    EvalItems(StrReplace(SubSeq(s, 2, Len(s) - 1), "'", "\""), "open", "", <<>>)

LooksLikeList(s) == Len(s) >= 1 /\ Head(s) = "[" /\ CharAt(s, Len(s)) = "]"

\* pd.isna(x) of a scalar.
IsNA(x) == x[1] \in {"None", "nan"}

(***************************************************************************)
(* bool(pd.isna(field)) for a list: pd.isna gives an array with one        *)
(* boolean per item, and the truth value of an array is its item's when it *)
(* has one item, a ValueError when it has two or more, and for no items    *)
(* False (NumPy before 2.2, with a warning) or a ValueError (NumPy 2.2 and *)
(* later).  The set of the outcomes the installed NumPy can produce.       *)
(***************************************************************************)
ArrayTruth(items) ==
    IF Len(items) = 0 THEN {"False", "ValueError"}
    ELSE IF Len(items) = 1 THEN {IF IsNA(items[1]) THEN "True" ELSE "False"}
    ELSE {"ValueError"}

\* The statements of clean_list_field after its first test.
CleanAfterFirstTest(f) ==
    IF f[1] = "list" THEN Returns(f[2])
    ELSE IF f[1] = "str" THEN
        IF LooksLikeList(f[2]) /\ EvalListDisplay(f[2]).ok
        THEN Returns(EvalListDisplay(f[2]).value)
        ELSE Returns(CommaSeparated(f[2]))
    ELSE Returns(<<>>)

\* The outcomes of clean_list_field(f).
clean_list_field(f) ==
    IF f[1] = "list" THEN
        {IF t = "ValueError" THEN Raises("ValueError")
         ELSE IF t = "True" THEN Returns(<<>>)
         ELSE CleanAfterFirstTest(f) : t \in ArrayTruth(f[2])}
    ELSE IF IsNA(f) \/ f = PyStr("") THEN {Returns(<<>>)}
    ELSE {CleanAfterFirstTest(f)}

(***************************************************************************)
(* The fields the normalizer is run on: missing cells, a number, lists of  *)
(* up to MaxListLen items, and strings of up to MaxTokens tokens, bare and *)
(* between brackets.                                                       *)
(***************************************************************************)
MaxListLen == 2
MaxTokens == 3

ListItems == {PyStr("a"), PyStr("b"), PyNaN}
FieldTokens == {"a", "b c", ",", " ", "'a'", "'"}

RECURSIVE ListsUpTo(_)
ListsUpTo(n) ==
    IF n = 0 THEN {<<>>}
    ELSE ListsUpTo(n - 1) \cup {Append(l, x) : l \in ListsUpTo(n - 1), x \in ListItems}

RECURSIVE TokenStrings(_)
TokenStrings(n) ==
    IF n = 0 THEN {""}
    ELSE TokenStrings(n - 1) \cup {t \o u : t \in TokenStrings(n - 1), u \in FieldTokens}

CleanFields ==
    {<<"None">>, <<"nan">>, <<"int", 5>>}
    \cup {<<"list", l>> : l \in ListsUpTo(MaxListLen)}
    \cup {PyStr(t) : t \in TokenStrings(MaxTokens)}
    \cup {PyStr("[" \o t \o "]") : t \in TokenStrings(MaxTokens)}

InitClean ==
    /\ pc = "start"
    /\ field \in CleanFields
    /\ cleaned = Idle
    /\ query = Idle /\ filters = Idle
    /\ IdleDocs /\ IdleReq

\* One call of clean_list_field(field).
CleanListField ==
    /\ pc = "start"
    /\ cleaned' \in clean_list_field(field)
    /\ pc' = "done"
    /\ UNCHANGED <<query, filters, field, docVars, reqVars>>

NextClean == CleanListField

SpecClean == InitClean /\ [][NextClean]_vars

\* C9: clean_list_field never raises and returns a list: the empty list for a missing
\* or empty field, a list argument unchanged whatever its length, the comma-split,
\* trimmed, non-empty segments for a string that is no list display, and the same
\* comma-split for a bracketed string that fails to parse.
C9_NeverRaisesListUnchanged ==
    pc = "done" =>
        /\ ~cleaned.raised
        /\ (IsNA(field) \/ field = PyStr("") => cleaned.value = <<>>)
        /\ (field[1] = "list" => cleaned.value = field[2])
        /\ (field[1] = "str" /\ ~LooksLikeList(field[2])
                => cleaned.value = CommaSeparated(field[2]))
        /\ (field[1] = "str" /\ LooksLikeList(field[2]) /\ ~EvalListDisplay(field[2]).ok
                => cleaned.value = CommaSeparated(field[2]))
(***************************************************************************)
(* get_duration_range and prepare_documents                                *)
(*                                                                         *)
(* A duration cell is <<"int", n>>, <<"float", tenths>>, <<"nan">>,        *)
(* <<"str", s>> or <<"None">>.  A list cell is <<"list", items>> (what     *)
(* clean_list_field returned) or anything else, which prepare_documents    *)
(* reads as the empty list.                                                *)
(***************************************************************************)
IsDigitStr(s) == s # "" /\ \A i \in 1..Len(s) : IsDigit(CharAt(s, i))

\* s.replace('.', '', 1)
RECURSIVE RemoveFirstDot(_)
RemoveFirstDot(s) ==
    IF s = "" THEN ""
    ELSE IF Head(s) = "." THEN Tail(s)
    ELSE Head(s) \o RemoveFirstDot(Tail(s))

DotCount(s) == Cardinality({i \in 1..Len(s) : CharAt(s, i) = "."})

\* The part of s before its first dot, and the part after it.
RECURSIVE BeforeDot(_)
BeforeDot(s) ==
    IF s = "" \/ Head(s) = "." THEN "" ELSE Head(s) \o BeforeDot(Tail(s))
AfterDot(s) == SubSeq(s, Len(BeforeDot(s)) + 2, Len(s))

(***************************************************************************)
(* float() of a string of digits, dots, signs, white space and letters, in *)
(* tenths: white space stripped, an optional sign, then digits with at     *)
(* most one dot and at least one digit; anything else is a ValueError.     *)
(* The strings used here carry at most one digit after the dot.            *)
(***************************************************************************)
FloatOfStr(s) ==
    LET t == Strip(s)
        signed == t # "" /\ Head(t) \in {"+", "-"}
        body == IF signed THEN Tail(t) ELSE t
        whole == BeforeDot(body)
        frac == AfterDot(body)
        wellFormed ==
            /\ IsDigitStr(RemoveFirstDot(body))
            /\ DotCount(body) <= 1
        magnitude == 10 * DigitsToInt(whole)
                     + (IF frac = "" THEN 0 ELSE DigitsToInt(SubSeq(frac, 1, 1)))
    IN IF wellFormed
       THEN [ok |-> TRUE,
             value |-> PyFloat(IF signed /\ Head(t) = "-" THEN -magnitude ELSE magnitude)]
       ELSE [ok |-> FALSE, value |-> PyNaN]

\* float(x): the value, or a failure (ValueError for a string, TypeError for None).
FloatOf(x) ==
    IF x[1] = "int" THEN [ok |-> TRUE, value |-> PyFloat(10 * x[2])]
    ELSE IF x[1] = "float" THEN [ok |-> TRUE, value |-> x]
    ELSE IF x[1] = "nan" THEN [ok |-> TRUE, value |-> PyNaN]
    ELSE IF x[1] = "str" THEN FloatOfStr(x[2])
    ELSE [ok |-> FALSE, value |-> PyNaN]

\* f <= minutes for a float f; every comparison with NaN is false.
FloatLeq(f, minutes) == f # PyNaN /\ f[2] <= 10 * minutes

get_duration_range(duration) ==
    LET f == FloatOf(duration)
    IN IF ~f.ok THEN "unknown"
       ELSE IF FloatLeq(f.value, 15) THEN "very_short"
       ELSE IF FloatLeq(f.value, 30) THEN "short"
       ELSE IF FloatLeq(f.value, 45) THEN "medium"
       ELSE IF FloatLeq(f.value, 60) THEN "standard"
       ELSE "long"

\* The "duration" metadata value.
MetadataDuration(duration) ==
    IF duration[1] \in {"int", "float", "nan"} THEN FloatOf(duration).value
    ELSE IF duration[1] = "str" /\ IsDigitStr(RemoveFirstDot(duration[2]))
        THEN FloatOf(duration).value
    ELSE PyFloat(0)

TestTypeCodes == <<"A", "B", "C", "D", "E", "K", "P", "S">>

test_type_mapping ==
    [code \in {TestTypeCodes[i] : i \in 1..Len(TestTypeCodes)} |->
        CASE code = "A" -> "Ability & Aptitude"
          [] code = "B" -> "Biodata & Situational Judgment"
          [] code = "C" -> "Competencies"
          [] code = "D" -> "Development and 360"
          [] code = "E" -> "Assessment Exercises"
          [] code = "K" -> "Knowledge & Skills"
          [] code = "P" -> "Personality & Behavior"
          [] code = "S" -> "Simulation"]

\* row[col] if isinstance(row[col], list) else []
ListOf(cell) == IF cell[1] = "list" THEN cell[2] ELSE <<>>

ItemsOf(seq) == {seq[i] : i \in 1..Len(seq)}

\* {v.lower() for every row for v in row[col]}
Vocabulary(rows, col) ==
    UNION {{StrLower(v[2]) : v \in {x \in ItemsOf(ListOf(rows[r][col])) : x[1] = "str"}} :
            r \in 1..Len(rows)}

all_job_levels(rows) == Vocabulary(rows, "job_levels")
all_languages(rows) == Vocabulary(rows, "languages")

\* level.replace(' ', '_').replace('-', '_')
JobLevelKey(level) == "job_level_" \o StrReplace(StrReplace(level, " ", "_"), "-", "_")

\* lang.replace(' ', '_').replace('-', '_').replace('#', 'sharp').replace('+', 'plus')
LanguageKey(lang) ==
    "language_" \o StrReplace(StrReplace(StrReplace(StrReplace(lang, " ", "_"),
                                                    "-", "_"), "#", "sharp"), "+", "plus")

\* tt.upper() if isinstance(tt, str) else tt
UpperItem(tt) == IF tt[1] = "str" THEN PyStr(StrUpper(tt[2])) ELSE tt

\* test_type_categories: the category of every item whose upper-cased code is known.
RECURSIVE Categories(_, _)
Categories(test_types, i) ==
    IF i > Len(test_types) THEN <<>>
    ELSE LET tt == UpperItem(test_types[i])
         IN (IF tt[1] = "str" /\ tt[2] \in DOMAIN test_type_mapping
             THEN <<test_type_mapping[tt[2]]>> ELSE <<>>)
            \o Categories(test_types, i + 1)

\* any(cat in wanted for cat in test_type_categories)
AnyCategory(test_types, wanted) == ItemsOf(Categories(test_types, 1)) \cap wanted # {}

\* metadata[key] = value
DictSet(d, k, v) == (k :> v) @@ d

\* The job-level flags, written in the iteration order of all_job_levels.
RECURSIVE WithJobLevelFlags(_, _, _, _)
WithJobLevelFlags(metadata, order, i, levels) ==
    IF i > Len(order) THEN metadata
    ELSE WithJobLevelFlags(
            DictSet(metadata, JobLevelKey(order[i]),
                    PyBool(\E jl \in ItemsOf(levels) : StrLower(jl[2]) = order[i])),
            order, i + 1, levels)

\* The language flags, written in the iteration order of all_languages.
RECURSIVE WithLanguageFlags(_, _, _, _)
WithLanguageFlags(metadata, order, i, langs) ==
    IF i > Len(order) THEN metadata
    ELSE WithLanguageFlags(
            DictSet(metadata, LanguageKey(order[i]),
                    PyBool(\E l \in ItemsOf(langs) : StrLower(l[2]) = order[i])),
            order, i + 1, langs)

\* The test_type_<code> flags, one per code of test_type_mapping.
RECURSIVE WithTestTypeFlags(_, _, _)
WithTestTypeFlags(metadata, i, test_types) ==
    IF i > Len(TestTypeCodes) THEN metadata
    ELSE WithTestTypeFlags(
            DictSet(metadata, "test_type_" \o TestTypeCodes[i],
                    PyBool(PyStr(TestTypeCodes[i]) \in {UpperItem(tt) : tt \in ItemsOf(test_types)})),
            i + 1, test_types)

\* CognitiveCategories without the knowledge tests.
CognitiveCategoriesAbilityOnly == {"Ability & Aptitude"}

CognitiveCategories == {"Ability & Aptitude", "Knowledge & Skills"}
PersonalityCategories == {"Personality & Behavior"}
TechnicalCategories == {"Knowledge & Skills", "Simulation"}
SoftSkillCategories == {"Competencies", "Biodata & Situational Judgment", "Personality & Behavior"}

WithCategoryFlags(metadata, test_types) ==
    DictSet(DictSet(DictSet(DictSet(metadata,
        "contains_cognitive", PyBool(AnyCategory(test_types, CognitiveCategories))),
        "contains_personality", PyBool(AnyCategory(test_types, PersonalityCategories))),
        "contains_technical", PyBool(AnyCategory(test_types, TechnicalCategories))),
        "contains_soft_skill", PyBool(AnyCategory(test_types, SoftSkillCategories)))

WithDurationFlags(metadata) ==
    DictSet(DictSet(DictSet(metadata,
        "duration_under_30", PyBool(FloatLeq(metadata["duration"], 30))),
        "duration_under_45", PyBool(FloatLeq(metadata["duration"], 45))),
        "duration_under_60", PyBool(FloatLeq(metadata["duration"], 60)))

\* str(item)
ItemStr(item) == IF item[1] = "str" THEN item[2] ELSE IntToStr(item[2])

\* The strings of a list of items, each after a blank, as " ".join puts them
\* behind the name and the description.
RECURSIVE JoinItems(_, _)
JoinItems(items, i) ==
    IF i > Len(items) THEN "" ELSE " " \o ItemStr(items[i]) \o JoinItems(items, i + 1)

BasicMetadata(row) ==
    [k \in {"name", "url", "description", "duration", "remote_testing", "adaptive_irt",
            "search_keywords"} |->
        CASE k = "name" -> PyStr(row.name)
          [] k = "url" -> PyStr(row.url)
          [] k = "description" -> PyStr(row.description)
          [] k = "duration" -> MetadataDuration(row.duration)
          [] k = "remote_testing" -> PyBool(row.remote_testing)
          [] k = "adaptive_irt" -> PyBool(row.adaptive_irt)
          [] k = "search_keywords" ->
                PyStr(StrLower(row.name \o " " \o row.description
                               \o JoinItems(ListOf(row.job_levels), 1)
                               \o JoinItems(ListOf(row.languages), 1)
                               \o JoinItems(ListOf(row.test_type), 1)))]

\* RowMetadata with the job-level flags written for the row's own job levels only,
\* not for the whole vocabulary.
RowMetadataOwnLevels(row, order) ==
    WithDurationFlags(
      WithCategoryFlags(
        WithTestTypeFlags(
          WithLanguageFlags(
            WithJobLevelFlags(
              DictSet(BasicMetadata(row), "duration_range",
                      PyStr(get_duration_range(row.duration))),
              SelectSeq(order.levels,
                        LAMBDA v : \E jl \in ItemsOf(ListOf(row.job_levels)) : StrLower(jl[2]) = v),
              1, ListOf(row.job_levels)),
            order.langs, 1, ListOf(row.languages)),
          1, ListOf(row.test_type)),
        ListOf(row.test_type)))

\* The metadata dict of one row, given the iteration orders of the two vocabularies.
RowMetadata(row, order) ==
    WithDurationFlags(
      WithCategoryFlags(
        WithTestTypeFlags(
          WithLanguageFlags(
            WithJobLevelFlags(
              DictSet(BasicMetadata(row), "duration_range",
                      PyStr(get_duration_range(row.duration))),
              order.levels, 1, ListOf(row.job_levels)),
            order.langs, 1, ListOf(row.languages)),
          1, ListOf(row.test_type)),
        ListOf(row.test_type)))

AllStr(cell) == \A item \in ItemsOf(ListOf(cell)) : item[1] = "str"

(***************************************************************************)
(* prepare_documents(df): the metadata of the documents it returns, one    *)
(* per row, or the exception it raises.  An item that is no string makes   *)
(* level.lower() or lang.lower() raise AttributeError while the            *)
(* vocabulary is collected, and ' and '.join or ', '.join raise TypeError  *)
(* while the page content of its row is put together.                      *)
(***************************************************************************)
prepare_documents(rows, order) ==
    IF \E r \in 1..Len(rows) : ~AllStr(rows[r].job_levels) \/ ~AllStr(rows[r].languages)
    THEN Raises("AttributeError")
    ELSE IF \E r \in 1..Len(rows) : ~AllStr(rows[r].test_type)
    THEN Raises("TypeError")
    ELSE Returns([r \in 1..Len(rows) |-> RowMetadata(rows[r], order)])
(***************************************************************************)
(* The catalogs the document builder is run on: one row with every         *)
(* duration cell or every list of up to MaxCodes test-type items, and up   *)
(* to MaxRows rows of a pool whose job levels and languages differ; then   *)
(* one query is compiled against the indexed catalog.                      *)
(***************************************************************************)
MaxDuration == 61
MaxCodes == 2
MaxRows == 2

StrList(seq) == <<"list", [i \in 1..Len(seq) |-> PyStr(seq[i])]>>

Row(levels, langs, types, dur) ==
    [name |-> "Verify G+", url |-> "https://www.shl.com/verify-g", description |-> "Ability test",
     duration |-> dur, remote_testing |-> TRUE, adaptive_irt |-> FALSE,
     job_levels |-> levels, languages |-> langs, test_type |-> types]

DurationCells ==
    {<<"int", n>> : n \in 0..MaxDuration}
    \cup {<<"float", t>> : t \in {5, 155, 305, 455, 605}}
    \cup {<<"nan">>, <<"None">>}
    \cup {PyStr(t) : t \in {"20", "15.5", "5.", ".5", "61", " 20 ", "-5", "abc", "", "."}}

TestTypeItems ==
    {PyStr(c) : c \in {"A", "B", "C", "D", "E", "K", "P", "S", "a", "k", "p", "s", "X", "kp"}}
    \cup {<<"int", 1>>}

RECURSIVE TestTypeLists(_)
TestTypeLists(n) ==
    IF n = 0 THEN {<<>>}
    ELSE TestTypeLists(n - 1)
         \cup {Append(l, x) : l \in TestTypeLists(n - 1), x \in TestTypeItems}

RowPool ==
    {Row(StrList(<<"Graduate">>), StrList(<<"English">>), StrList(<<"K">>), <<"int", 17>>),
     Row(StrList(<<"Entry-Level">>), StrList(<<"Latin American Spanish">>), StrList(<<"P">>),
         <<"int", 30>>),
     Row(StrList(<<"entry level", "Graduate">>), StrList(<<>>), StrList(<<>>), <<"None">>),
     Row(<<"nan">>, StrList(<<"C#", "english">>), StrList(<<"k", "x">>), PyStr("abc"))}

RECURSIVE PoolCatalogs(_)
PoolCatalogs(n) ==
    IF n = 0 THEN {<<>>}
    ELSE PoolCatalogs(n - 1) \cup {Append(c, r) : c \in PoolCatalogs(n - 1), r \in RowPool}

Catalogs ==
    {<<Row(StrList(<<"Graduate">>), StrList(<<"English">>), StrList(<<"K">>), d)>> :
        d \in DurationCells}
    \cup {<<Row(StrList(<<"Graduate">>), StrList(<<"English">>), <<"list", l>>, <<"int", 17>>)>> :
        l \in TestTypeLists(MaxCodes)}
    \cup (PoolCatalogs(MaxRows) \ {<<>>})

\* The orders in which a set can be iterated.
IterationOrders(S) ==
    {o \in [1..Cardinality(S) -> S] : \A i, j \in 1..Cardinality(S) : i # j => o[i] # o[j]}

DocsQueries ==
    {"graduate knowledge test under 20 minutes",
     "entry-level personality test in Spanish, 20 minutes",
     "analyst",
     "english remote 50 min"}

InitDocs ==
    /\ pc = "start"
    /\ df \in Catalogs
    /\ iter_order \in [levels : IterationOrders(all_job_levels(df)),
                       langs : IterationOrders(all_languages(df))]
    /\ documents = Idle
    /\ query = Idle /\ filters = Idle
    /\ IdleNorm /\ IdleReq

\* One call of prepare_documents(df): the index is built from what it returns.
PrepareDocuments ==
    /\ pc = "start"
    /\ LET outcome == prepare_documents(df, iter_order)
       IN IF outcome.raised
          THEN documents' = outcome /\ pc' = "raised"
          ELSE documents' = outcome.value /\ pc' = "indexed"
    /\ UNCHANGED <<query, filters, normVars, df, iter_order, reqVars>>

\* A query arrives once the catalog is indexed: extract_filters_from_query(q).
CompileQuery ==
    /\ pc = "indexed"
    /\ \E q \in DocsQueries :
        /\ query' = q
        /\ filters' = extract_filters_from_query(q)
    /\ pc' = "queried"
    /\ UNCHANGED <<normVars, docVars, reqVars>>

NextDocs == PrepareDocuments \/ CompileQuery

SpecDocs == InitDocs /\ [][NextDocs]_vars

(***************************************************************************)
(* Claims about the document builder (SpecDocs)                            *)
(***************************************************************************)
Built == pc \in {"indexed", "queried"}

\* The record's test-type items that are, whatever their case, the code c.
HasCode(row, c) ==
    \E tt \in ItemsOf(ListOf(row.test_type)) : tt[1] = "str" /\ StrLower(tt[2]) = StrLower(c)

\* C5: every field name of the compiled filter is a key of the metadata of every
\* document built for the catalog.
C5_FilterFieldsAreMetadataKeys ==
    pc = "queried" =>
        \A i \in 1..Len(FilterConds(filters)) : \A d \in 1..Len(documents) :
            FilterConds(filters)[i].key \in DOMAIN documents[d]

\* C6: all documents of one call have the same metadata keys, and every metadata
\* value is a string, a number or a boolean.
C6_SameKeysScalarValues ==
    Built =>
        /\ \A a, b \in 1..Len(documents) : DOMAIN documents[a] = DOMAIN documents[b]
        /\ \A d \in 1..Len(documents) : \A k \in DOMAIN documents[d] :
            \/ documents[d][k][1] = "str" /\ Len(documents[d][k]) = 2
            \/ documents[d][k][1] = "bool" /\ documents[d][k][2] \in BOOLEAN
            \/ documents[d][k][1] = "float" /\ documents[d][k][2] \in Int
            \/ documents[d][k] = PyNaN

\* C6's case: two documents of one catalog with the same keys and different values of
\* a job-level flag that only one of the records has.
C6_Witness ==
    /\ Built
    /\ Len(documents) = 2
    /\ DOMAIN documents[1] = DOMAIN documents[2]
    /\ "job_level_graduate" \in DOMAIN documents[1]
    /\ documents[1]["job_level_graduate"] = PyBool(TRUE)
    /\ documents[2]["job_level_graduate"] = PyBool(FALSE)

\* C7: contains_cognitive iff the record's codes include A or K, contains_personality
\* iff P, contains_technical iff K or S, contains_soft_skill iff C, B or P, the codes
\* compared without regard to case; no other code makes an aggregate true.
C7_CategoryAggregates ==
    Built =>
        \A d \in 1..Len(documents) :
            /\ documents[d]["contains_cognitive"]
                = PyBool(HasCode(df[d], "A") \/ HasCode(df[d], "K"))
            /\ documents[d]["contains_personality"] = PyBool(HasCode(df[d], "P"))
            /\ documents[d]["contains_technical"]
                = PyBool(HasCode(df[d], "K") \/ HasCode(df[d], "S"))
            /\ documents[d]["contains_soft_skill"]
                = PyBool(HasCode(df[d], "C") \/ HasCode(df[d], "B") \/ HasCode(df[d], "P"))

\* C7's case: the codes [K, P], in either case, give all four aggregates true.
C7_Witness ==
    /\ Built
    /\ Len(df) = 1
    /\ df[1].test_type = <<"list", <<PyStr("k"), PyStr("P")>>>>
    /\ documents[1]["contains_cognitive"] = PyTrue
    /\ documents[1]["contains_personality"] = PyTrue
    /\ documents[1]["contains_technical"] = PyTrue
    /\ documents[1]["contains_soft_skill"] = PyTrue

\* C8: for every record, duration_range and duration_under_30/45/60 derived again from
\* the document's stored duration, and the category flags derived again from its
\* test_type_<code> flags, are the values the document stores.
C8_RoundTrip ==
    Built =>
        \A d \in 1..Len(documents) :
            LET m == documents[d]
                has(c) == m["test_type_" \o c] = PyTrue
            IN /\ m["duration_range"] = PyStr(get_duration_range(m["duration"]))
               /\ m["duration_under_30"] = PyBool(FloatLeq(m["duration"], 30))
               /\ m["duration_under_45"] = PyBool(FloatLeq(m["duration"], 45))
               /\ m["duration_under_60"] = PyBool(FloatLeq(m["duration"], 60))
               /\ m["contains_cognitive"] = PyBool(has("A") \/ has("K"))
               /\ m["contains_personality"] = PyBool(has("P"))
               /\ m["contains_technical"] = PyBool(has("K") \/ has("S"))
               /\ m["contains_soft_skill"] = PyBool(has("C") \/ has("B") \/ has("P"))
(***************************************************************************)
(* search_assessments                                                      *)
(*                                                                         *)
(* The vector store is an external capability: its answer to a search is   *)
(* a ranked list of at most k documents, or an exception (the store or the *)
(* embedding service unreachable, a filter it rejects).  A document is its *)
(* name and its duration metadata.                                         *)
(***************************************************************************)
k == 5
FallbackCount == 3

SearchDurationUnits == <<"minutes">>

\* max_duration: the number of the first "<N> minutes" of the lower-cased query, or None.
max_duration(q) ==
    LET time_match == DurationSearch(StrLower(q), SearchDurationUnits)
    IN IF time_match.found THEN <<"int", DigitsToInt(time_match.group1)>> ELSE <<"None">>

\* bool(x) for None, an int and a float: None and zero are false, NaN is true.
Truthy(x) ==
    IF x[1] = "None" THEN FALSE
    ELSE IF x[1] \in {"int", "float"} THEN x[2] # 0
    ELSE TRUE

\* if duration and float(duration) <= max_duration
PassesDurationFilter(doc, limit) ==
    Truthy(doc.duration) /\ FloatLeq(FloatOf(doc.duration).value, limit)

WholeList(seq, n) == seq

\* filtered_results[:n]
FirstN(seq, n) == SubSeq(seq, 1, IF Len(seq) < n THEN Len(seq) ELSE n)

\* The statements of search_assessments after the vector store has answered.
PostFilter(q, filtered_results) ==
    LET limit == max_duration(q)
    IN IF Truthy(limit)
       THEN LET duration_filtered ==
                    SelectSeq(filtered_results, LAMBDA doc : PassesDurationFilter(doc, limit[2]))
            IN IF duration_filtered # <<>> THEN duration_filtered
               ELSE FirstN(filtered_results, FallbackCount)
       ELSE filtered_results

\* search_assessments(q), given the vector store's answer: the list returned, or the
\* store's exception passed on.
search_assessments(q, answer) ==
    IF answer.raised THEN answer ELSE Returns(PostFilter(q, answer.value))

(***************************************************************************)
(* The searches: "<N> minutes" for every N up to MaxLimit, queries without *)
(* a limit, and every ranked list of up to k documents with durations      *)
(* below, at and above the limits, zero and NaN; and the example of the    *)
(* specification.                                                          *)
(***************************************************************************)
MaxLimit == 11

SearchQueries ==
    {"test under " \o IntToStr(n) \o " minutes" : n \in 0..MaxLimit}
    \cup {"quick personality test", "java test, 20 min", "15minutes", "5 Minutes or 15 minutes",
            "5 mins, else 15 minutes"}

DocDurations == {PyFloat(0), PyFloat(100), PyFloat(700), PyNaN}

Doc(i, d) == [name |-> "doc" \o IntToStr(i), duration |-> d]

RECURSIVE RankedLists(_)
RankedLists(n) ==
    IF n = 0 THEN {<<>>}
    ELSE RankedLists(n - 1)
         \cup {Append(l, Doc(Len(l) + 1, d)) :
                 l \in {x \in RankedLists(n - 1) : Len(x) = n - 1}, d \in DocDurations}

ExampleAnswer ==
    <<Doc(1, PyFloat(100)), Doc(2, PyFloat(200)), Doc(3, PyFloat(400)),
      Doc(4, PyFloat(500)), Doc(5, PyFloat(700))>>

EngineAnswers ==
    {Returns(l) : l \in RankedLists(k) \cup {ExampleAnswer}} \cup {Raises("RetrievalFailure")}

InitSearch ==
    /\ pc = "start"
    /\ query \in SearchQueries
    /\ filters = Idle
    /\ engine = Idle /\ returned = Idle
    /\ request = Idle /\ url = Idle /\ job_description = Idle /\ calls = Idle
    /\ response = Idle
    /\ IdleNorm /\ IdleDocs

\* One call of search_assessments(query): the filter is compiled, the vector store
\* answers, the duration post-filter is applied.
SearchAssessments ==
    /\ pc = "start"
    /\ filters' = extract_filters_from_query(query)
    /\ \E answer \in EngineAnswers :
        /\ engine' = answer
        /\ returned' = search_assessments(query, answer)
    /\ pc' = "done"
    /\ UNCHANGED <<query, normVars, docVars, request, url, job_description, calls, response>>

NextSearch == SearchAssessments

SpecSearch == InitSearch /\ [][NextSearch]_vars

\* C1: whenever a maximum duration N is extracted from the query, the returned list is
\* exactly the engine's results whose duration is <= N when there is one, and otherwise
\* the first 3 of the engine's results; so it is empty only if the engine returned none.
C1_PostFilterOrFirstThree ==
    (pc = "done" /\ ~engine.raised /\ max_duration(query) # <<"None">>) =>
        LET n == max_duration(query)[2]
            within == SelectSeq(engine.value, LAMBDA doc : FloatLeq(doc.duration, n))
        IN /\ ~returned.raised
           /\ returned.value = (IF within # <<>> THEN within ELSE FirstN(engine.value, 3))
           /\ (returned.value = <<>> => engine.value = <<>>)

(***************************************************************************)
(* The request paths: the /search endpoint and process_user_query          *)
(*                                                                         *)
(* A request runs in steps, one per external call: the scraper             *)
(* (extract_job_description, which catches its own exceptions and returns  *)
(* an "Error ..." string), the text generation (generate_search_query,     *)
(* which raises when the model cannot be called) and the retrieval         *)
(* (search_assessments).  calls records each capability called, whether    *)
(* it failed, the text it was called with and what came back.              *)
(***************************************************************************)
MinResults == 1
MaxResults == 10

\* The end of the run of characters that are no white space, from position i on.
RECURSIVE NonSpaceRunEnd(_, _)
NonSpaceRunEnd(s, i) ==
    IF i <= Len(s) /\ ~IsSpace(CharAt(s, i)) THEN NonSpaceRunEnd(s, i + 1) ELSE i - 1

\* Where https?://[^\s]+ matches in s, from position i: the scheme and at least one
\* more character.
UrlMatchEnd(s, i) ==
    LET scheme == IF StartsAt(s, i, "http://") THEN 7
                  ELSE IF StartsAt(s, i, "https://") THEN 8 ELSE 0
    IN IF scheme > 0 /\ NonSpaceRunEnd(s, i + scheme) >= i + scheme
       THEN NonSpaceRunEnd(s, i + scheme) ELSE 0

\* extract_url_from_query: the first URL of the query, or None.
extract_url_from_query(q) ==
    LET starts == {i \in 1..Len(q) : UrlMatchEnd(q, i) > 0}
    IN IF starts = {} THEN <<"None">>
       ELSE LET i == CHOOSE j \in starts : \A m \in starts : j <= m
            IN PyStr(SubSeq(q, i, UrlMatchEnd(q, i)))

\* The duration phrase of the original query, put behind a generated query that
\* mentions neither "time" nor "minute".
WithTimeConstraint(original, search_query) ==
    LET time_match == DurationSearch(StrLower(original), SearchDurationUnits)
    IN IF /\ time_match.found
          /\ ~StrContains(StrLower(search_query), "time")
          /\ ~StrContains(StrLower(search_query), "minute")
       THEN search_query \o " Assessment duration less than " \o time_match.group0 \o "."
       ELSE search_query

\* The response of the endpoint (SearchResponse), or of process_user_query: the text
\* shown as the search query (an error string when something failed) and the results.
Response(req, text, u, results) ==
    IF req.entry = "search"
    THEN Returns([search_query |-> text, original_query |-> req.query, is_url |-> req.is_url,
                  job_description_url |-> IF req.is_url THEN u ELSE <<"None">>,
                  results |-> results])
    ELSE Returns([search_query |-> text, results |-> results])

ScrapeOutcomes ==
    {[failed |-> TRUE, text |-> "Error extracting job description: timed out"],
     [failed |-> FALSE, text |-> "Java developer, Spring and SQL"],
     [failed |-> FALSE, text |-> "Error handling and logging engineer"]}

GenerateOutcomes ==
    {Raises("GenerationFailure"),
     Returns("java developer assessment"),
     Returns(" Java skills, 40 minute test "),
     Returns("timed coding test")}

RequestDurations == {PyFloat(100), PyFloat(700)}

RECURSIVE RequestLists(_)
RequestLists(n) ==
    IF n = 0 THEN {<<>>}
    ELSE RequestLists(n - 1)
         \cup {Append(l, Doc(Len(l) + 1, d)) :
                 l \in {x \in RequestLists(n - 1) : Len(x) = n - 1}, d \in RequestDurations}

RequestAnswers ==
    {Raises("RetrievalFailure"), Returns(ExampleAnswer),
     Returns(<<Doc(1, PyFloat(0)), Doc(2, PyFloat(700))>>)}
    \cup {Returns(l) : l \in RequestLists(k)}

RequestQueries ==
    {"https://jobs.example.com/1",
     "hiring via https://jobs.example.com/1 tests within 30 minutes",
     "java developer test 30 minutes",
     "quick personality test"}

Requests ==
    {[entry |-> "search", query |-> q, is_url |-> u, max_results |-> m] :
        q \in RequestQueries, u \in BOOLEAN, m \in MinResults..MaxResults}
    \cup {[entry |-> "process_user_query", query |-> q, is_url |-> FALSE, max_results |-> MaxResults] :
        q \in RequestQueries}

InitRequest ==
    /\ pc = "start"
    /\ request \in Requests
    /\ query = Idle /\ filters = Idle /\ engine = Idle /\ returned = Idle
    /\ url = Idle /\ job_description = Idle
    /\ calls = <<>>
    /\ response = Idle
    /\ IdleNorm /\ IdleDocs

\* The URL the request is about: the endpoint takes a query that starts with a scheme
\* as it is; otherwise the first URL found in the query.
RequestUrl(req) ==
    IF req.entry = "search" /\ (StartsAt(req.query, 1, "http://") \/ StartsAt(req.query, 1, "https://"))
    THEN PyStr(req.query)
    ELSE extract_url_from_query(req.query)

\* The request is routed: to the scraper when it is about a URL, to the retrieval with
\* the query as it is otherwise; the endpoint answers an is_url request without a URL
\* with an empty response.
Route ==
    /\ pc = "start"
    /\ IF request.entry = "search" /\ ~request.is_url THEN
            /\ url' = <<"None">>
            /\ query' = request.query
            /\ pc' = "retrieve"
            /\ UNCHANGED response
       ELSE IF RequestUrl(request) = <<"None">> THEN
            IF request.entry = "search" THEN
                /\ url' = <<"None">>
                /\ response' = Response(request, "", <<"None">>, <<>>)
                /\ pc' = "done"
                /\ UNCHANGED query
            ELSE
                /\ url' = <<"None">>
                /\ query' = request.query
                /\ pc' = "retrieve"
                /\ UNCHANGED response
       ELSE
            /\ url' = RequestUrl(request)
            /\ pc' = "scrape"
            /\ UNCHANGED <<query, response>>
    /\ UNCHANGED <<filters, normVars, docVars, engine, returned, request,
                   job_description, calls>>

\* extract_job_description(url): a text that starts with "Error" ends the request.
Scrape ==
    /\ pc = "scrape"
    /\ \E o \in ScrapeOutcomes :
        /\ calls' = Append(calls, <<"scrape", o.failed, url[2], o.text>>)
        /\ job_description' = o.text
        /\ IF StartsAt(o.text, 1, "Error")
           THEN /\ response' = Response(request, o.text, url, <<>>)
                /\ pc' = "done"
           ELSE /\ pc' = "generate"
                /\ UNCHANGED response
    /\ UNCHANGED <<query, filters, normVars, docVars, engine, returned, request, url>>

\* generate_search_query(job_description), outside any try: its exception leaves the
\* request path; its text, stripped, gets the original query's duration phrase.
Generate ==
    /\ pc = "generate"
    /\ \E o \in GenerateOutcomes :
        /\ calls' = Append(calls, <<"generate", o.raised, job_description,
                                    IF o.raised THEN o.error ELSE Strip(o.value)>>)
        /\ IF o.raised
           THEN /\ response' = o
                /\ pc' = "done"
                /\ UNCHANGED query
           ELSE /\ query' = WithTimeConstraint(request.query, Strip(o.value))
                /\ pc' = "retrieve"
                /\ UNCHANGED response
    /\ UNCHANGED <<filters, normVars, docVars, engine, returned, request, url,
                   job_description>>

\* Whether the call of search_assessments is inside a try block: always in the
\* endpoint, in process_user_query only on the URL branch.
RetrievalGuarded == request.entry = "search" \/ url # <<"None">>

\* search_assessments(query) and the formatting of its results; an exception is
\* turned into an error response where the call is guarded, and leaves the request
\* path where it is not.
Retrieve ==
    /\ pc = "retrieve"
    /\ filters' = extract_filters_from_query(query)
    /\ \E answer \in RequestAnswers :
        /\ engine' = answer
        /\ calls' = Append(calls, <<"retrieve", answer.raised, query,
                                    search_assessments(query, answer)>>)
        /\ returned' = search_assessments(query, answer)
        /\ response' =
            IF ~answer.raised THEN
                Response(request, query, url,
                         IF request.entry = "search"
                         THEN FirstN(search_assessments(query, answer).value, request.max_results)
                         ELSE search_assessments(query, answer).value)
            ELSE IF RetrievalGuarded THEN
                Response(request, "Error searching for assessments: " \o answer.error, url, <<>>)
            ELSE answer
    /\ pc' = "done"
    /\ UNCHANGED <<query, normVars, docVars, request, url, job_description>>

NextRequest == Route \/ Scrape \/ Generate \/ Retrieve

SpecRequest == InitRequest /\ [][NextRequest]_vars

\* A capability called by the request failed.
SomeCallFailed == \E i \in 1..Len(calls) : calls[i][2]

\* C10: no failure of an external capability leaves the endpoint or process_user_query
\* as an exception, on the URL or the free-text branch; every such failure ends the
\* request with a response that carries an error string and no results.
C10_FailuresBecomeErrorResponses ==
    pc = "done" =>
        /\ ~response.raised
        /\ (SomeCallFailed =>
                /\ response.value.results = <<>>
                /\ StartsAt(response.value.search_query, 1, "Error"))
\* The request took the URL branch: its first call was the scraper's.
UrlBranch == calls # <<>> /\ calls[1][1] = "scrape"

\* C11: in the URL branch the text generation and the retrieval are called only after,
\* and only if, the scraper succeeded.  When the extraction fails the request ends
\* with the error string as its result and no recommendations, with no further call;
\* when it succeeds, whatever text it returns, that text is passed to the text
\* generation and, once a search query is generated, the retrieval is called.
C11_ScrapeGatesGenerationAndRetrieval ==
    /\ \A i \in 1..Len(calls) :
          (UrlBranch /\ calls[i][1] \in {"generate", "retrieve"}) => (i > 1 /\ ~calls[1][2])
    /\ (pc = "done" /\ UrlBranch) =>
          IF calls[1][2]
          THEN /\ Len(calls) = 1
               /\ ~response.raised
               /\ response.value.search_query = job_description
               /\ response.value.results = <<>>
          ELSE /\ Len(calls) >= 2
               /\ calls[2][1] = "generate" /\ calls[2][3] = job_description
               /\ (~calls[2][2] => Len(calls) = 3 /\ calls[3][1] = "retrieve")
\* a is b with some of its elements left out: the elements of a are elements of b at
\* increasing positions.
RECURSIVE IsSubsequence(_, _)
IsSubsequence(a, b) ==
    IF a = <<>> THEN TRUE
    ELSE IF b = <<>> THEN FALSE
    ELSE IF Head(a) = Head(b) THEN IsSubsequence(Tail(a), Tail(b))
    ELSE IsSubsequence(a, Tail(b))

\* The request's last call was the retrieval, and the engine answered it.
Retrieved == calls # <<>> /\ calls[Len(calls)][1] = "retrieve" /\ ~calls[Len(calls)][2]

\* C12: whatever the query and the engine's answer, the list search_assessments
\* returns is an order-preserving subsequence of the engine's ranked list of at most
\* 5 documents, and the list the search endpoint returns is such a subsequence of at
\* most max_results documents.
C12_SubsequenceWithinCap ==
    (pc = "done" /\ Retrieved) =>
        /\ ~returned.raised
        /\ IsSubsequence(returned.value, engine.value)
        /\ Len(returned.value) <= 5
        /\ ~response.raised
        /\ IsSubsequence(response.value.results, engine.value)
        /\ (request.entry = "search" => Len(response.value.results) <= request.max_results)

\* The endpoint answered a request with a duration constraint: the post-filter left
\* documents out and the cap cut the rest.
C12_Witness ==
    /\ pc = "done" /\ request.entry = "search"
    /\ Retrieved
    /\ max_duration(query) # <<"None">>
    /\ Len(engine.value) = 5
    /\ Len(returned.value) = 3
    /\ returned.value # FirstN(engine.value, 3)
    /\ Len(response.value.results) = 2
\* The text states a duration: a number followed by a unit of minutes.
StatesDuration(s) == FirstDurationN(s) # -1

\* The text generation returned a search query for this request.
Generated == Len(calls) >= 2 /\ calls[2][1] = "generate" /\ ~calls[2][2]

\* C13: in the URL branch, when the original query holds a duration phrase
\* "<N> minutes" and the generated search query states no duration itself, the string
\* handed to search_assessments is the generated query with the phrase appended, from
\* which search_assessments extracts the maximum duration N; when the original query
\* holds no such phrase, the generated query is handed over unchanged.
C13_DurationPhraseReappended ==
    (UrlBranch /\ Generated) =>
        LET generated == calls[2][4]
            n == max_duration(request.query)
        IN /\ (n # <<"None">> /\ ~StatesDuration(generated)) =>
                  /\ Len(query) > Len(generated)
                  /\ SubSeq(query, 1, Len(generated)) = generated
                  /\ max_duration(query) = n
           /\ (n = <<"None">> => query = generated)
\* The record's list in column col holds the vocabulary value v, whatever the case.
RecordHas(row, col, v) ==
    \E x \in ItemsOf(ListOf(row[col])) : x[1] = "str" /\ StrLower(x[2]) = v

\* C14: for every catalog, record and vocabulary job level or language v, the flag
\* under v's normalized key is true iff the record holds v, whatever the case; also
\* when two vocabulary values share a key, and whatever the order in which the
\* vocabulary is iterated.
C14_FlagIffRecordHasValue ==
    Built =>
        \A d \in 1..Len(documents) :
            /\ \A v \in all_job_levels(df) :
                  documents[d][JobLevelKey(v)] = PyBool(RecordHas(df[d], "job_levels", v))
            /\ \A v \in all_languages(df) :
                  documents[d][LanguageKey(v)] = PyBool(RecordHas(df[d], "languages", v))
\* The post-filter of search_assessments was applied to the engine's list for the
\* maximum duration n: what is returned is what it gives.
PostFiltered(n) ==
    LET within == SelectSeq(engine.value, LAMBDA doc : PassesDurationFilter(doc, n))
    IN returned.value = (IF within # <<>> THEN within ELSE FirstN(engine.value, FallbackCount))

\* C15: the two duration parsers agree on every query.  extract_filters_from_query
\* recognises a duration expression with number N exactly when search_assessments
\* extracts a maximum duration from the same query, with the same N, and applies the
\* post-filter for it; no query gets a duration condition in its filter without the
\* post-filter, or with another N.
C15_DurationParsersAgree ==
    pc = "done" =>
        LET time_match == DurationSearch(StrLower(query), FilterDurationUnits)
            n == max_duration(query)
        IN /\ time_match.found <=> n # <<"None">>
           /\ time_match.found => n = <<"int", DigitsToInt(time_match.group1)>>
           /\ DurationCondsOf(filters) # {} => n # <<"None">>
           /\ (time_match.found /\ ~engine.raised) =>
                  PostFiltered(DigitsToInt(time_match.group1))
====
